---- MODULE Spec2Model ----
(***************************************************************************)
(* A model of rubygems-client-go: the bounded-concurrency batch fetch      *)
(* (client.go, GetMultipleGemInfo), the memoised bundle-config cache and   *)
(* the credential resolver (config file, credentials.go).                  *)
(*                                                                         *)
(* A Go pointer or error is a tuple: <<>> is nil, <<v>> points at v.       *)
(***************************************************************************)
EXTENDS Integers, Sequences, FiniteSets, TLC

VARIABLES
    \* ---- GetMultipleGemInfo (client.go) ----
    requests,   \* the argument: a sequence of GemInfoRequest
    network,    \* the registry: for each gem name, the responses it may give
    results,    \* make([]GemInfoResult, len(requests))
    sem,        \* number of tokens in the buffered channel `semaphore`
    wg,         \* the WaitGroup counter
    next,       \* the range loop's next index (1-based)
    cap,        \* per goroutine: the loop variables i, req its closure captured
    wpc,        \* per goroutine: where it stands
    calls,      \* per goroutine: the GetGemInfo calls it made, with the responses
    writes,     \* per result slot: the goroutines that assigned it, in order
    cpc,        \* the caller: "running" or "returned"
    ret,        \* the returned slice (<<>> before the return)
    \* ---- hostToEnvKey applied to one host (credentials.go) ----
    host,       \* the argument, a string
    key,        \* the returned key (<<>> before the call)
    kpc,        \* "call" before the call, "done" after it
    \* ---- the config cache and the resolver (config file, credentials.go) ----
    fs,           \* the file system: readable path -> contents
    env,          \* the environment: variable name -> value
    localConfig,  \* var localConfig *BundleConfig
    globalConfig, \* var globalConfig *BundleConfig
    once,         \* var configLoadedOnce sync.Once: its done flag and its mutex
    proc,         \* per goroutine: the call it is in, where it stands, its result
    loads,        \* number of loadConfigs runs begun since the last reset
    reads,        \* number of ReadFile calls per file since the last reset
    seen,         \* what the ReadFile calls of the latest loadConfigs returned
    resets,       \* number of ResetConfigCache calls begun
    epoch,        \* number of ResetConfigCache calls completed
    racy,         \* a reset has overlapped a running loadConfigs
    answers,      \* per host: the results CredentialsFor returned before any reset
    crashed,      \* the runtime has stopped the process (fatal error)
    \* ---- one call of a function without package state ----
    fn,         \* the function called ("" when there is none)
    arg,        \* its argument
    got,        \* what it returned (<<>> before the return)
    fpc         \* "idle" without a call, "call" before it, "done" after it

batchVars == <<requests, network, results, sem, wg, next, cap, wpc, calls,
               writes, cpc, ret>>

keyVars == <<host, key, kpc>>

cfgVars == <<fs, env, localConfig, globalConfig, once, proc, loads, reads, seen,
             resets, epoch, racy, answers, crashed>>

fnVars == <<fn, arg, got, fpc>>

vars == <<batchVars, keyVars, cfgVars, fnVars>>

Nil == <<>>

Ptr(v) == <<v>>

(***************************************************************************)
(* Bounds of the model.                                                    *)
(***************************************************************************)
\* longest request list of the fine-grained batch specification
MaxN == 3

\* how many requests beyond the semaphore's capacity the wide batch has
Over == 1

\* longest host name handed to hostToEnvKey, apart from the named examples
MaxHostLen == 3

\* how many times ResetConfigCache is called in one run
MaxResets == 1

\* the longest credential value tried, in characters
MaxValueLen == 5

\* the longest config document tried, in pieces
MaxPieces == 4

\* the longest version list the registry returns
MaxReturned == 25

(***************************************************************************)
(* Go strings.  A string is the sequence of its characters, each a         *)
(* one-character TLA+ string.  Indices are 1-based; 0 is Go's -1.          *)
(***************************************************************************)
LowerCase == <<"a", "b", "c", "d", "e", "f", "g", "h", "i", "j", "k", "l", "m",
               "n", "o", "p", "q", "r", "s", "t", "u", "v", "w", "x", "y", "z">>

UpperCase == <<"A", "B", "C", "D", "E", "F", "G", "H", "I", "J", "K", "L", "M",
               "N", "O", "P", "Q", "R", "S", "T", "U", "V", "W", "X", "Y", "Z">>

\* unicode.ToUpper on one character
ToUpperChar(c) ==
    IF \E k \in 1..Len(LowerCase) : LowerCase[k] = c
    THEN UpperCase[CHOOSE k \in 1..Len(LowerCase) : LowerCase[k] = c]
    ELSE c

\* strings.ToUpper
ToUpper(s) == [k \in 1..Len(s) |-> ToUpperChar(s[k])]

\* s[from:to] of Go for the 1-based positions from..to
Slice(s, from, to) == SubSeq(s, from, to)

\* strings.Index(s, c) for a one-character c
Index(s, c) ==
    IF \E k \in 1..Len(s) : s[k] = c
    THEN CHOOSE k \in 1..Len(s) : s[k] = c /\ \A j \in 1..(k - 1) : s[j] # c
    ELSE 0

\* strings.LastIndex(s, c) for a one-character c
LastIndex(s, c) ==
    IF \E k \in 1..Len(s) : s[k] = c
    THEN CHOOSE k \in 1..Len(s) : s[k] = c /\ \A j \in (k + 1)..Len(s) : s[j] # c
    ELSE 0

\* strings.Count(s, c) for a one-character c
Count(s, c) == Cardinality({k \in 1..Len(s) : s[k] = c})

\* strings.HasPrefix
HasPrefix(s, p) == Len(s) >= Len(p) /\ SubSeq(s, 1, Len(p)) = p

RECURSIVE ReplaceAll(_, _, _)
\* strings.ReplaceAll(s, c, r) for a one-character c
ReplaceAll(s, c, r) ==
    IF s = <<>> THEN <<>>
    ELSE (IF Head(s) = c THEN r ELSE <<Head(s)>>) \o ReplaceAll(Tail(s), c, r)

RECURSIVE Flatten(_)
\* the concatenation of a sequence of strings
Flatten(ss) == IF ss = <<>> THEN <<>> ELSE Head(ss) \o Flatten(Tail(ss))

(***************************************************************************)
(* credentials.go: hostToEnvKey                                            *)
(***************************************************************************)
BundlePrefix == <<"B", "U", "N", "D", "L", "E", "_">>

\* A port removal that cuts at the last colon whatever the number of colons,
\* unless a ']' follows it.
StripPortLastColon(h) ==
    IF LastIndex(h, ":") # 0 /\ Index(Slice(h, LastIndex(h, ":"), Len(h)), "]") = 0
    THEN Slice(h, 1, LastIndex(h, ":") - 1)
    ELSE h

\* A port removal that cuts after the closing bracket and keeps the brackets.
StripPortKeepsBrackets(h) ==
    IF HasPrefix(h, <<"[">>)
    THEN IF Index(h, "]") # 0
         THEN Slice(h, 1, Index(h, "]"))
         ELSE h
    ELSE IF Count(h, ":") = 1
         THEN Slice(h, 1, LastIndex(h, ":") - 1)
         ELSE h

\* the host with its port removed, as the first lines of hostToEnvKey do it
StripPort(h) ==
    IF HasPrefix(h, <<"[">>)
    THEN IF Index(h, "]") # 0
         THEN Slice(h, 2, Index(h, "]") - 1)     \* host[1:end]
         ELSE h
    ELSE IF Count(h, ":") = 1
         THEN Slice(h, 1, LastIndex(h, ":") - 1) \* host[:idx]
         ELSE h

\* A hostToEnvKey that writes a dash like a dot, as two underscores.
hostToEnvKeyDashAsDot(h) ==
    BundlePrefix \o
      ToUpper(ReplaceAll(ReplaceAll(StripPort(h), ".", <<"_", "_">>),
                         "-", <<"_", "_">>))

\* func hostToEnvKey(host string) string
hostToEnvKey(h) ==
    BundlePrefix \o
      ToUpper(ReplaceAll(ReplaceAll(StripPort(h), ".", <<"_", "_">>),
                         "-", <<"_", "_", "_">>))

\* the characters host names are made of in this model
HostChars == {"a", "Z", "1", ".", "-", ":", "[", "]"}

\* all strings over chars of at most n characters
Strings(chars, n) == UNION {[1..k -> chars] : k \in 0..n}

RubygemsOrg == <<"r", "u", "b", "y", "g", "e", "m", "s", ".", "o", "r", "g">>

MyGemsExampleCom == <<"m", "y", "-", "g", "e", "m", "s", ".", "e", "x", "a", "m",
                      "p", "l", "e", ".", "c", "o", "m">>

Localhost8080 == <<"l", "o", "c", "a", "l", "h", "o", "s", "t", ":", "8", "0",
                   "8", "0">>

\* "[::1]:443", the bracketed host of the comment in hostToEnvKey
BracketedLoopback443 == <<"[", ":", ":", "1", "]", ":", "4", "4", "3">>

\* hosts of TestHostToEnvKey and of the comments of hostToEnvKey
ExampleHosts == {RubygemsOrg, MyGemsExampleCom, Localhost8080, BracketedLoopback443}

Hosts == Strings(HostChars, MaxHostLen) \cup ExampleHosts

KeyIdle == host = <<>> /\ key = <<>> /\ kpc = "idle"

\* no function call is modelled
FnIdle == fn = "" /\ arg = <<>> /\ got = <<>> /\ fpc = "idle"

KeyInit == host \in Hosts /\ key = <<>> /\ kpc = "call"

\* key := hostToEnvKey(host)
CallHostToEnvKey ==
    /\ kpc = "call"
    /\ key' = hostToEnvKey(host)
    /\ kpc' = "done"
    /\ UNCHANGED host

(***************************************************************************)
(* credentials.go: Credentials and parseCredentialValue                    *)
(***************************************************************************)
\* const tokenUsername = "any"
tokenUsername == <<"a", "n", "y">>

\* type Credentials struct { Username, Password, Token string }
Credentials(username, password, token) ==
    [Username |-> username, Password |-> password, Token |-> token]

\* A parseCredentialValue that splits at the last colon.
parseCredentialValueLastColon(value) ==
    IF value = <<>> THEN Nil
    ELSE IF LastIndex(value, ":") # 0
    THEN LET idx == LastIndex(value, ":")
             username == Slice(value, 1, idx - 1)
             password == Slice(value, idx + 1, Len(value))
         IN  IF username = tokenUsername
             THEN Ptr(Credentials(tokenUsername, password, password))
             ELSE Ptr(Credentials(username, password, <<>>))
    ELSE Ptr(Credentials(<<>>, <<>>, value))

\* func parseCredentialValue(value string) *Credentials
parseCredentialValue(value) ==
    IF value = <<>> THEN Nil
    ELSE IF Index(value, ":") # 0
    THEN LET idx == Index(value, ":")
             username == Slice(value, 1, idx - 1)
             password == Slice(value, idx + 1, Len(value))
         IN  IF username = tokenUsername
             THEN Ptr(Credentials(tokenUsername, password, password))
             ELSE Ptr(Credentials(username, password, <<>>))
    ELSE Ptr(Credentials(<<>>, <<>>, value))

(***************************************************************************)
(* The config file: parseBundleConfigYAML, trimQuotes, parseConfigFile     *)
(***************************************************************************)
\* A stand-in, as one character, for a run of bufio.MaxScanTokenSize bytes
\* without a line break: a line that holds it is too long for the Scanner.
LongRun == "<64KiB>"

\* a Go map: a function on the set of its keys
EmptyMap == [k \in {} |-> <<>>]

MapPut(mp, k, v) == [x \in (DOMAIN mp) \cup {k} |-> IF x = k THEN v ELSE mp[x]]

\* unicode.IsSpace, for the characters of the model
IsSpace(c) == c \in {" ", "\t", "\n", "\r", "\f"}

RECURSIVE TrimLeft(_)
TrimLeft(s) == IF s # <<>> /\ IsSpace(Head(s)) THEN TrimLeft(Tail(s)) ELSE s

RECURSIVE TrimRight(_)
TrimRight(s) ==
    IF s # <<>> /\ IsSpace(s[Len(s)]) THEN TrimRight(SubSeq(s, 1, Len(s) - 1))
    ELSE s

\* strings.TrimSpace
TrimSpace(s) == TrimRight(TrimLeft(s))

\* bufio's dropCR
DropCR(s) ==
    IF s # <<>> /\ s[Len(s)] = "\r" THEN SubSeq(s, 1, Len(s) - 1) ELSE s

RECURSIVE ScanLines(_, _)
\* scanner.Scan() until it returns false: the lines scanned (Text) and whether
\* scanner.Err() is non-nil (a line too long for the buffer)
ScanLines(data, acc) ==
    IF data = <<>> THEN [Lines |-> acc, Err |-> FALSE]
    ELSE LET nl == Index(data, "\n")
             raw == IF nl = 0 THEN data ELSE SubSeq(data, 1, nl - 1)
             rest == IF nl = 0 THEN <<>> ELSE SubSeq(data, nl + 1, Len(data))
         IN  IF Index(raw, LongRun) # 0
             THEN [Lines |-> acc, Err |-> TRUE]
             ELSE ScanLines(rest, Append(acc, DropCR(raw)))

\* A trimQuotes that removes a leading and a trailing quote of different kinds
\* too.
trimQuotesAnyPair(s) ==
    IF /\ Len(s) >= 2
       /\ s[1] \in {"\"", "'"}
       /\ s[Len(s)] \in {"\"", "'"}
    THEN SubSeq(s, 2, Len(s) - 1)
    ELSE s

\* func trimQuotes(s string) string
trimQuotes(s) ==
    IF /\ Len(s) >= 2
       /\ \/ s[1] = "\"" /\ s[Len(s)] = "\""
          \/ s[1] = "'" /\ s[Len(s)] = "'"
    THEN SubSeq(s, 2, Len(s) - 1)
    ELSE s

Dashes == <<"-", "-", "-">>

\* the body of the scan loop of parseBundleConfigYAML for one line: the map
\* after the line
ParseLine(result, text) ==
    LET line == TrimSpace(text)
        idx == Index(line, ":")
        k == TrimSpace(SubSeq(line, 1, idx - 1))
        v == trimQuotes(TrimSpace(SubSeq(line, idx + 1, Len(line))))
    IN  IF line = <<>> \/ HasPrefix(line, <<"#">>) \/ line = Dashes THEN result
        ELSE IF idx = 0 THEN result
        ELSE IF HasPrefix(k, BundlePrefix) THEN MapPut(result, k, v)
        ELSE result

RECURSIVE ParseLines(_, _)
ParseLines(result, lines) ==
    IF lines = <<>> THEN result
    ELSE ParseLines(ParseLine(result, Head(lines)), Tail(lines))

\* func parseBundleConfigYAML(data []byte) map[string]string
parseBundleConfigYAML(data) ==
    LET scan == ScanLines(data, <<>>)
    IN  IF scan.Err THEN EmptyMap ELSE ParseLines(EmptyMap, scan.Lines)

\* A parseConfigFile that returns the config even when it has no credentials.
parseConfigFileKeepsEmpty(data) ==
    LET yaml == parseBundleConfigYAML(data)
        keys == {k \in DOMAIN yaml : parseCredentialValue(yaml[k]) # Nil}
    IN  Ptr([credentials |-> [k \in keys |-> parseCredentialValue(yaml[k])[1]]])

\* func parseConfigFile(data []byte) *BundleConfig
parseConfigFile(data) ==
    LET yaml == parseBundleConfigYAML(data)
        keys == {k \in DOMAIN yaml : parseCredentialValue(yaml[k]) # Nil}
    IN  IF keys = {} THEN Nil
        ELSE Ptr([credentials |-> [k \in keys |-> parseCredentialValue(yaml[k])[1]]])

\* func (c *BundleConfig) CredentialsForHost(host string) *Credentials
CredentialsForHost(c, h) ==
    IF c = Nil THEN Nil
    ELSE IF hostToEnvKey(h) \in DOMAIN c[1].credentials
    THEN Ptr(c[1].credentials[hostToEnvKey(h)])
    ELSE Nil

(***************************************************************************)
(* The world of the resolver: files and environment variables              *)
(***************************************************************************)
NL == <<"\n">>

\* the lookup keys of the hosts a.b and c
KeyAB == BundlePrefix \o <<"A", "_", "_", "B">>

KeyC == BundlePrefix \o <<"C">>

HostAB == <<"a", ".", "b">>

HostC == <<"c">>

\* the hosts that are resolved
CfgHosts == {HostAB, HostC}

\* ---
\* BUNDLE_A__B: "any:l"
DocLocal ==
    Dashes \o NL \o KeyAB \o <<":", " ", "\"", "a", "n", "y", ":", "l", "\"">> \o NL

\* BUNDLE_A__B: u:p
\* BUNDLE_C: 't'
DocGlobal ==
    KeyAB \o <<":", " ", "u", ":", "p">> \o NL \o KeyC \o <<":", " ", "'", "t", "'">> \o NL

\* a comment, an empty line, a key without the prefix, a credential that is
\* empty, a line without colon: no entry qualifies
DocJunk ==
    <<"#", "x", "\n", "\n", "F", ":", "y", "\n">> \o KeyAB
      \o <<":", " ", "\"", "\"", "\n", "n", "o", "\n">>

\* BUNDLE_C: g       (nothing for a.b)
DocOnlyC == KeyC \o <<":", " ", "g">> \o NL

\* a good line followed by a line too long for the Scanner
DocLong == KeyAB \o <<":", " ", "z">> \o NL \o <<LongRun>> \o NL

KeyBundleUserHome == BundlePrefix \o <<"U", "S", "E", "R", "_", "H", "O", "M", "E">>

KeyHome == <<"H", "O", "M", "E">>

DirU == <<"/", "u">>

DirH == <<"/", "h">>

\* the path ".bundle/config", relative to the working directory
LocalPath == <<".bundle", "/", "config">>

\* filepath.Join(dir, ".bundle", "config")
JoinBundleConfig(dir) == dir \o <<"/", ".bundle", "/", "config">>

\* os.Getenv
Getenv(k) == IF k \in DOMAIN env THEN env[k] ELSE <<>>

\* os.ReadFile: Ok = FALSE is a non-nil error
ReadFile(path) ==
    IF path \in DOMAIN fs
    THEN [Read |-> TRUE, Ok |-> TRUE, Data |-> fs[path]]
    ELSE [Read |-> TRUE, Ok |-> FALSE, Data |-> <<>>]

\* no ReadFile call was made
NotRead == [Read |-> FALSE, Ok |-> FALSE, Data |-> <<>>]

\* func globalBundleConfigPath() string; os.UserHomeDir fails without $HOME
globalBundleConfigPath ==
    IF Getenv(KeyBundleUserHome) # <<>>
    THEN JoinBundleConfig(Getenv(KeyBundleUserHome))
    ELSE IF Getenv(KeyHome) # <<>>
    THEN JoinBundleConfig(Getenv(KeyHome))
    ELSE <<>>

\* a function from its pairs <<key, value>>; the keys are distinct
MapOf(pairs) ==
    [k \in {q[1] : q \in pairs} |-> (CHOOSE q \in pairs : q[1] = k)[2]]

Absent == "absent"

\* the file system in which each path holds the given contents or is Absent
FileSystem(local, globalU, globalH) ==
    MapOf({q \in {<<LocalPath, local>>, <<JoinBundleConfig(DirU), globalU>>,
                  <<JoinBundleConfig(DirH), globalH>>} : q[2] # Absent})

\* the environment with the given values; Absent is an unset variable
Environment(bundleUserHome, home, credAB) ==
    MapOf({q \in {<<KeyBundleUserHome, bundleUserHome>>, <<KeyHome, home>>,
                  <<KeyAB, credAB>>} : q[2] # Absent})

\* any:e
EnvToken == <<"a", "n", "y", ":", "e">>

(***************************************************************************)
(* credentials.go: CredentialsFromEnv, CredentialsFor                      *)
(***************************************************************************)
\* func CredentialsFromEnv(host string) *Credentials
CredentialsFromEnv(h) ==
    IF Getenv(hostToEnvKey(h)) = <<>> THEN Nil
    ELSE parseCredentialValue(Getenv(hostToEnvKey(h)))

\* A resolver that asks the environment before the local config.
BeforeGlobalEnvFirst(lc, h) ==
    IF CredentialsFromEnv(h) # Nil THEN CredentialsFromEnv(h)
    ELSE CredentialsForHost(lc, h)

\* A resolver in which a local config without the host hides the environment.
BeforeGlobalLocalBlocks(lc, h) ==
    IF lc # Nil THEN CredentialsForHost(lc, h) ELSE CredentialsFromEnv(h)

\* steps 1 and 2 of CredentialsFor, given the local config lc that
\* GetLocalBundleConfig returned: the credential found, or Nil to go on
BeforeGlobal(lc, h) ==
    IF lc # Nil /\ CredentialsForHost(lc, h) # Nil THEN CredentialsForHost(lc, h)
    ELSE CredentialsFromEnv(h)

\* step 3 of CredentialsFor, given what GetGlobalBundleConfig returned
FromGlobal(gc, h) ==
    IF gc # Nil /\ CredentialsForHost(gc, h) # Nil THEN CredentialsForHost(gc, h)
    ELSE Nil

\* the merged config of LoadBundleConfig: global first, local second
\* A LoadBundleConfig that copies the local config first and the global one
\* over it.
MergedGlobalWins(lc, gc) ==
    IF lc = Nil /\ gc = Nil THEN Nil
    ELSE LET g == IF gc = Nil THEN EmptyMap ELSE gc[1].credentials
             l == IF lc = Nil THEN EmptyMap ELSE lc[1].credentials
         IN  Ptr([credentials |->
                    [k \in (DOMAIN g) \cup (DOMAIN l) |->
                        IF k \in DOMAIN g THEN g[k] ELSE l[k]]])

Merged(lc, gc) ==
    IF lc = Nil /\ gc = Nil THEN Nil
    ELSE LET g == IF gc = Nil THEN EmptyMap ELSE gc[1].credentials
             l == IF lc = Nil THEN EmptyMap ELSE lc[1].credentials
         IN  Ptr([credentials |->
                    [k \in (DOMAIN g) \cup (DOMAIN l) |->
                        IF k \in DOMAIN l THEN l[k] ELSE g[k]]])

(***************************************************************************)
(* The config cache: sync.Once, loadConfigs, the accessors, the reset      *)
(***************************************************************************)
Procs == DOMAIN proc

Accessors == {"GetLocalBundleConfig", "GetGlobalBundleConfig",
              "LoadBundleConfig", "CredentialsFor"}

\* sync.Once{}
NewOnce == [done |-> FALSE, locked |-> FALSE]

ProcIdle == [pc |-> "idle", op |-> "none", host |-> <<>>, want |-> "none",
             res |-> Nil, ep |-> 0]

\* A Once that never sees itself done.
OnceNeverDone(o) == FALSE

\* o.done.Load() != 0
OnceIsDone(o) == o.done

\* A mutex that lets everybody in.
MutexAlwaysFree(o) == TRUE

\* o.m.Lock() can proceed
MutexFree(o) == ~o.locked

LoadInProgress ==
    \E q \in Procs : proc[q].pc \in {"loadLocal", "loadGlobal", "finish"}

ResetInProgress ==
    \E q \in Procs : proc[q].pc \in {"reset1", "reset2", "reset3"}

NoReads == [local |-> 0, global |-> 0]

NothingSeen == [Epoch |-> 0, Local |-> NotRead, Global |-> NotRead,
                Complete |-> FALSE, LocalBy |-> "nobody", GlobalBy |-> "nobody"]

\* before the first call: nothing is loaded
CfgStart(ps, files, environment) ==
    /\ fs = files
    /\ env = environment
    /\ localConfig = Nil
    /\ globalConfig = Nil
    /\ once = NewOnce
    /\ proc = [q \in ps |-> ProcIdle]
    /\ loads = 0
    /\ reads = NoReads
    /\ seen = NothingSeen
    /\ resets = 0
    /\ epoch = 0
    /\ racy = FALSE
    /\ answers = [h \in CfgHosts |-> {}]
    /\ crashed = FALSE

\* the resolver is not in use
CfgIdle == CfgStart({}, EmptyMap, EmptyMap)

\* which cached config the accessor a call starts with reads
WantOf(op) ==
    IF op = "GetGlobalBundleConfig" THEN "global"
    ELSE IF op = "LoadBundleConfig" THEN "both"
    ELSE "local"

\* goroutine q calls one of the accessors, or CredentialsFor(h)
Call(q, op, h) ==
    /\ ~crashed
    /\ proc[q].pc = "idle"
    /\ op \in Accessors
    /\ proc' = [proc EXCEPT ![q] =
                  [pc |-> "do", op |-> op, host |-> h, want |-> WantOf(op),
                   res |-> Nil, ep |-> epoch]]
    /\ UNCHANGED <<fs, env, localConfig, globalConfig, once, loads, reads, seen, resets,
                   epoch, racy, answers, crashed>>

\* configLoadedOnce.Do(loadConfigs): the fast path, o.done.Load() == 0 ?
OnceCheck(q) ==
    /\ ~crashed
    /\ proc[q].pc = "do"
    /\ proc' = [proc EXCEPT ![q].pc = IF OnceIsDone(once) THEN "read" ELSE "lock"]
    /\ UNCHANGED <<fs, env, localConfig, globalConfig, once, loads, reads, seen, resets,
                   epoch, racy, answers, crashed>>

\* doSlow: o.m.Lock(); if o.done.Load() == 0 { f() }; otherwise unlock at once
OnceLock(q) ==
    /\ ~crashed
    /\ proc[q].pc = "lock"
    /\ MutexFree(once)
    /\ IF OnceIsDone(once)
       THEN /\ proc' = [proc EXCEPT ![q].pc = "read"]
            /\ UNCHANGED <<once, racy>>
       ELSE /\ proc' = [proc EXCEPT ![q].pc = "loadLocal"]
            /\ once' = [once EXCEPT !.locked = TRUE]
            /\ racy' = (racy \/ ResetInProgress)
    /\ UNCHANGED <<fs, env, localConfig, globalConfig, loads, reads, seen, resets, epoch,
                   answers, crashed>>

\* loadConfigs, first half: the local file
LoadLocal(q) ==
    /\ ~crashed
    /\ proc[q].pc = "loadLocal"
    /\ LET r == ReadFile(LocalPath)
       IN  /\ localConfig' = IF r.Ok THEN parseConfigFile(r.Data) ELSE localConfig
           /\ seen' = [Epoch |-> epoch, Local |-> r, Global |-> NotRead,
                       Complete |-> FALSE, LocalBy |-> q, GlobalBy |-> "nobody"]
    /\ loads' = loads + 1
    /\ reads' = [reads EXCEPT !.local = @ + 1]
    /\ proc' = [proc EXCEPT ![q].pc = "loadGlobal"]
    /\ UNCHANGED <<fs, env, globalConfig, once, resets, epoch, racy, answers,
                   crashed>>

\* loadConfigs, second half: the global file, if a path for it resolves
LoadGlobal(q) ==
    /\ ~crashed
    /\ proc[q].pc = "loadGlobal"
    /\ LET path == globalBundleConfigPath
           r == IF path # <<>> THEN ReadFile(path) ELSE NotRead
       IN  /\ globalConfig' = IF r.Ok THEN parseConfigFile(r.Data) ELSE globalConfig
           /\ seen' = [seen EXCEPT !.Global = r, !.Complete = TRUE,
                                    !.GlobalBy = q]
           /\ reads' = IF r.Read THEN [reads EXCEPT !.global = @ + 1] ELSE reads
    /\ proc' = [proc EXCEPT ![q].pc = "finish"]
    /\ UNCHANGED <<fs, env, localConfig, once, loads, resets, epoch, racy,
                   answers, crashed>>

\* the deferred calls of doSlow: o.done.Store(1), then o.m.Unlock(); the
\* runtime stops the process when the mutex is not locked
OnceFinish(q) ==
    /\ ~crashed
    /\ proc[q].pc = "finish"
    /\ once' = [done |-> TRUE, locked |-> FALSE]
    /\ crashed' = ~once.locked
    /\ proc' = [proc EXCEPT ![q].pc = IF once.locked THEN "read" ELSE "fatal"]
    /\ UNCHANGED <<fs, env, localConfig, globalConfig, loads, reads, seen, resets, epoch,
                   racy, answers>>

\* the call of q returns v
Returned(q, v) ==
    /\ proc' = [proc EXCEPT ![q].pc = "idle", ![q].want = "none", ![q].res = v]
    /\ answers' = IF proc[q].op = "CredentialsFor" /\ resets = 0
                  THEN [answers EXCEPT ![proc[q].host] = @ \cup {v}]
                  ELSE answers

\* after Do: the accessor returns the cached config; LoadBundleConfig merges;
\* CredentialsFor looks the host up and returns or goes on to the global config
Read(q) ==
    /\ ~crashed
    /\ proc[q].pc = "read"
    /\ CASE proc[q].op = "GetLocalBundleConfig" -> Returned(q, localConfig)
         [] proc[q].op = "GetGlobalBundleConfig" -> Returned(q, globalConfig)
         [] proc[q].op = "LoadBundleConfig" ->
               Returned(q, Merged(localConfig, globalConfig))
         [] proc[q].op = "CredentialsFor" /\ proc[q].want = "local" ->
               IF BeforeGlobal(localConfig, proc[q].host) # Nil
               THEN Returned(q, BeforeGlobal(localConfig, proc[q].host))
               ELSE /\ proc' = [proc EXCEPT ![q].pc = "do", ![q].want = "global"]
                    /\ UNCHANGED answers
         [] proc[q].op = "CredentialsFor" /\ proc[q].want = "global" ->
               Returned(q, FromGlobal(globalConfig, proc[q].host))
    /\ UNCHANGED <<fs, env, localConfig, globalConfig, once, loads, reads, seen, resets,
                   epoch, racy, crashed>>

\* goroutine q calls ResetConfigCache
CallReset(q) ==
    /\ ~crashed
    /\ proc[q].pc = "idle"
    /\ resets < MaxResets
    /\ resets' = resets + 1
    /\ racy' = (racy \/ LoadInProgress)
    /\ proc' = [proc EXCEPT ![q] =
                  [pc |-> "reset1", op |-> "ResetConfigCache", host |-> <<>>,
                   want |-> "none", res |-> Nil, ep |-> epoch]]
    /\ UNCHANGED <<fs, env, localConfig, globalConfig, once, loads, reads, seen, epoch,
                   answers, crashed>>

\* A reset that leaves the cached local config in place.
ResetLocalKeeps(cfg) == cfg

\* localConfig = nil
ResetLocal(cfg) == Nil

\* the three assignments of ResetConfigCache, one step each
Reset1(q) ==
    /\ ~crashed
    /\ proc[q].pc = "reset1"
    /\ localConfig' = ResetLocal(localConfig)
    /\ proc' = [proc EXCEPT ![q].pc = "reset2"]
    /\ UNCHANGED <<fs, env, globalConfig, once, loads, reads, seen, resets, epoch, racy,
                   answers, crashed>>

Reset2(q) ==
    /\ ~crashed
    /\ proc[q].pc = "reset2"
    /\ globalConfig' = Nil
    /\ proc' = [proc EXCEPT ![q].pc = "reset3"]
    /\ UNCHANGED <<fs, env, localConfig, once, loads, reads, seen, resets, epoch, racy,
                   answers, crashed>>

Reset3(q) ==
    /\ ~crashed
    /\ proc[q].pc = "reset3"
    /\ once' = NewOnce
    /\ epoch' = epoch + 1
    /\ loads' = 0
    /\ reads' = NoReads
    /\ proc' = [proc EXCEPT ![q].pc = "idle"]
    /\ UNCHANGED <<fs, env, localConfig, globalConfig, seen, resets, racy,
                   answers, crashed>>

\* somebody outside the program replaces the files (or the working directory
\* changes)
FileChange(files) ==
    /\ ~crashed
    /\ files # fs
    /\ fs' = files
    /\ UNCHANGED <<env, localConfig, globalConfig, once, proc, loads, reads, seen, resets,
                   epoch, racy, answers, crashed>>

(***************************************************************************)
(* client.go: types and GetGemInfo                                         *)
(***************************************************************************)
\* http.StatusOK
StatusOK == 200

\* the status the test server gives for an unknown gem (http.StatusNotFound)
StatusNotFound == 404

\* capacity of the channel `semaphore`
MaxConcurrent == 10

GemNames == {"gem1", "nonexistent"}

GemVersions == {"1.0.0"}

GemInfoRequest == [Name : GemNames, Version : GemVersions]

ZeroRequest == [Name |-> "", Version |-> ""]

\* type GemInfoResult; the zero value is what make() fills the slice with
ZeroResult == [Request |-> ZeroRequest, Info |-> Nil, Error |-> Nil]

\* What httpClient.Do can give back.  Transport = FALSE: Do returned an error.
\* Decodes = FALSE: the body is not the JSON of a GemInfo.  Name, Version and
\* Dependencies are those of the JSON body (the registry's latest version).
Response(transport, status, decodes, name, version, deps) ==
    [Transport |-> transport, Status |-> status, Decodes |-> decodes,
     Name |-> name, Version |-> version, Dependencies |-> deps]

TransportError == Response(FALSE, 0, FALSE, "", "", "")

NotFound == Response(TRUE, StatusNotFound, FALSE, "", "", "")

Garbage == Response(TRUE, StatusOK, FALSE, "", "", "")

Latest == Response(TRUE, StatusOK, TRUE, "latest-name", "9.9.9", "rack >= 1")

Responses == {TransportError, NotFound, Garbage, Latest}

\* fmt.Errorf(...): the message, and the status and name it formats
Errorf(msg, status, name) == [Msg |-> msg, Status |-> status, Name |-> name]

\* A GetGemInfo that returns the decoded record as the registry sent it.
GetGemInfoAsDecoded(name, version, resp) ==
    IF ~resp.Transport
    THEN [Info |-> Nil, Error |-> Ptr(Errorf("failed to fetch gem info", 0, ""))]
    ELSE IF resp.Status # StatusOK
    THEN [Info |-> Nil,
          Error |-> Ptr(Errorf("RubyGems API returned status", resp.Status, name))]
    ELSE IF ~resp.Decodes
    THEN [Info |-> Nil, Error |-> Ptr(Errorf("failed to decode gem info", 0, ""))]
    ELSE [Info |-> Ptr([Name |-> resp.Name, Version |-> resp.Version,
                        Dependencies |-> resp.Dependencies]),
          Error |-> Nil]

\* A variant of GetGemInfo that keeps the decoded record beside the error of a
\* non-200 response.
GetGemInfoKeepsInfo(name, version, resp) ==
    IF ~resp.Transport
    THEN [Info |-> Nil, Error |-> Ptr(Errorf("failed to fetch gem info", 0, ""))]
    ELSE IF resp.Status # StatusOK
    THEN [Info |-> Ptr([Name |-> name, Version |-> version,
                        Dependencies |-> resp.Dependencies]),
          Error |-> Ptr(Errorf("RubyGems API returned status", resp.Status, name))]
    ELSE IF ~resp.Decodes
    THEN [Info |-> Nil, Error |-> Ptr(Errorf("failed to decode gem info", 0, ""))]
    ELSE [Info |-> Ptr([Name |-> name, Version |-> version,
                        Dependencies |-> resp.Dependencies]),
          Error |-> Nil]

\* func (c *Client) GetGemInfo(name, version string) (*GemInfo, error), given
\* the response resp that httpClient.Do produced for the request
GetGemInfo(name, version, resp) ==
    IF ~resp.Transport
    THEN [Info |-> Nil, Error |-> Ptr(Errorf("failed to fetch gem info", 0, ""))]
    ELSE IF resp.Status # StatusOK
    THEN [Info |-> Nil,
          Error |-> Ptr(Errorf("RubyGems API returned status", resp.Status, name))]
    ELSE IF ~resp.Decodes
    THEN [Info |-> Nil, Error |-> Ptr(Errorf("failed to decode gem info", 0, ""))]
    ELSE \* info.Version = version; info.Name = name
         [Info |-> Ptr([Name |-> name, Version |-> version,
                        Dependencies |-> resp.Dependencies]),
          Error |-> Nil]

\* maxVersions := 20
maxVersions == 20

\* What httpClient.Do can give back to GetGemVersions; Versions is the array of
\* VersionInfo the JSON body decodes to.
VersionsResponse(transport, status, decodes, versions) ==
    [Transport |-> transport, Status |-> status, Decodes |-> decodes,
     Versions |-> versions]

\* A GetGemVersions that keeps the last maxVersions entries.
GetGemVersionsKeepsLast(name, resp) ==
    IF ~resp.Transport
    THEN [Versions |-> <<>>,
          Error |-> Ptr(Errorf("failed to fetch gem versions", 0, ""))]
    ELSE IF resp.Status # StatusOK
    THEN [Versions |-> <<>>,
          Error |-> Ptr(Errorf("RubyGems API returned status", resp.Status, name))]
    ELSE IF ~resp.Decodes
    THEN [Versions |-> <<>>,
          Error |-> Ptr(Errorf("failed to decode gem versions", 0, ""))]
    ELSE LET versions ==
                 IF Len(resp.Versions) > maxVersions
                 THEN SubSeq(resp.Versions, Len(resp.Versions) - maxVersions + 1,
                             Len(resp.Versions))
                 ELSE resp.Versions
         IN  [Versions |-> [i \in 1..Len(versions) |-> versions[i].Number],
              Error |-> Nil]

\* func (c *Client) GetGemVersions(name string) ([]string, error), given the
\* response resp that httpClient.Do produced for the request
GetGemVersions(name, resp) ==
    IF ~resp.Transport
    THEN [Versions |-> <<>>,
          Error |-> Ptr(Errorf("failed to fetch gem versions", 0, ""))]
    ELSE IF resp.Status # StatusOK
    THEN [Versions |-> <<>>,
          Error |-> Ptr(Errorf("RubyGems API returned status", resp.Status, name))]
    ELSE IF ~resp.Decodes
    THEN [Versions |-> <<>>,
          Error |-> Ptr(Errorf("failed to decode gem versions", 0, ""))]
    ELSE LET versions ==
                 IF Len(resp.Versions) > maxVersions
                 THEN SubSeq(resp.Versions, 1, maxVersions)   \* versions[:maxVersions]
                 ELSE resp.Versions
         IN  [Versions |-> [i \in 1..Len(versions) |-> versions[i].Number],
              Error |-> Nil]

(***************************************************************************)
(* client.go: GetMultipleGemInfo                                           *)
(***************************************************************************)
N == Len(requests)

Workers == 1..N

\* A closure that sees the index of the last iteration instead of its own.
CaptureLastIndex(k) == [i |-> N, req |-> requests[k]]

\* A closure that sees the request of the last iteration instead of its own.
CaptureLastReq(k) == [i |-> k, req |-> requests[N]]

\* `for i, req := range requests`: the per-iteration variables that the
\* closure of iteration k captures
Capture(k) == [i |-> k, req |-> requests[k]]

NoCapture == [i |-> 0, req |-> ZeroRequest]

\* A channel with room for one token more than its capacity.
HasRoomOffByOne(n) == n <= MaxConcurrent

\* `semaphore <- struct{}{}` proceeds only while the channel holds fewer
\* tokens than its capacity
HasRoom(n) == n < MaxConcurrent

\* A Wait that does not wait for the counter.
WaitDoneNoWait(counter) == TRUE

\* wg.Wait() proceeds only when the counter is zero
WaitDone(counter) == counter = 0

\* state right after `results := make(...)`, `var wg`, `semaphore := make(...)`
BatchStart(reqs, net) ==
    /\ requests = reqs
    /\ network = net
    /\ results = [i \in 1..Len(reqs) |-> ZeroResult]
    /\ sem = 0
    /\ wg = 0
    /\ next = 1
    /\ cap = [w \in 1..Len(reqs) |-> NoCapture]
    /\ wpc = [w \in 1..Len(reqs) |-> "unspawned"]
    /\ calls = [w \in 1..Len(reqs) |-> <<>>]
    /\ writes = [i \in 1..Len(reqs) |-> <<>>]
    /\ cpc = "running"
    /\ ret = <<>>

\* all request lists of at most n requests
RequestLists(n) == UNION {[1..k -> GemInfoRequest] : k \in 0..n}

\* a network on which any call can end in any way
AnyNetwork == [g \in GemNames |-> Responses]

\* GetMultipleGemInfo is not running
BatchIdle == BatchStart(<<>>, AnyNetwork)

\* the test server of TestGetMultipleGemInfo: gem1 is known, the rest is 404
TestServer == [g \in GemNames |-> IF g = "gem1" THEN {Latest} ELSE {NotFound}]

\* wg.Go(func() {...}): one iteration of the range loop
Spawn ==
    /\ cpc = "running"
    /\ next <= N
    /\ wg' = wg + 1
    /\ cap' = [cap EXCEPT ![next] = Capture(next)]
    /\ wpc' = [wpc EXCEPT ![next] = "acquire"]
    /\ next' = next + 1
    /\ UNCHANGED <<requests, network, results, sem, calls, writes, cpc, ret>>

\* semaphore <- struct{}{}
Acquire(w) ==
    /\ wpc[w] = "acquire"
    /\ HasRoom(sem)
    /\ sem' = sem + 1
    /\ wpc' = [wpc EXCEPT ![w] = "fetch"]
    /\ UNCHANGED <<requests, network, results, wg, next, cap, calls, writes,
                   cpc, ret>>

\* the results slice after goroutine w assigned results[i]
Store(res, w, out) ==
    [res EXCEPT ![cap[w].i] =
        [Request |-> cap[w].req, Info |-> out.Info, Error |-> out.Error]]

\* info, err := c.GetGemInfo(req.Name, req.Version); results[i] = ...
FetchAndStore(w, resp) ==
    /\ results' = Store(results, w,
                        GetGemInfo(cap[w].req.Name, cap[w].req.Version, resp))
    /\ calls' = [calls EXCEPT ![w] =
                    Append(@, [Name |-> cap[w].req.Name,
                               Version |-> cap[w].req.Version, Resp |-> resp])]
    /\ writes' = [writes EXCEPT ![cap[w].i] = Append(@, w)]

\* A goroutine that calls GetGemInfo again when the call failed.
AfterFetchRetry(resp) ==
    IF ~resp.Transport \/ resp.Status # StatusOK \/ ~resp.Decodes THEN "fetch"
    ELSE "release"

\* where the goroutine stands after results[i] is assigned: at its end, with
\* the deferred release to run, whatever the call returned
AfterFetch(resp) == "release"

Fetch(w) ==
    /\ wpc[w] = "fetch"
    /\ \E resp \in network[cap[w].req.Name] :
          /\ FetchAndStore(w, resp)
          /\ wpc' = [wpc EXCEPT ![w] = AfterFetch(resp)]
    /\ UNCHANGED <<requests, network, sem, wg, next, cap, cpc, ret>>

\* defer func() { <-semaphore }()
Release(w) ==
    /\ wpc[w] = "release"
    /\ sem' = sem - 1
    /\ wpc' = [wpc EXCEPT ![w] = "done"]
    /\ UNCHANGED <<requests, network, results, wg, next, cap, calls, writes,
                   cpc, ret>>

\* wg.Go's deferred wg.Done()
Done(w) ==
    /\ wpc[w] = "done"
    /\ wg' = wg - 1
    /\ wpc' = [wpc EXCEPT ![w] = "exit"]
    /\ UNCHANGED <<requests, network, results, sem, next, cap, calls, writes,
                   cpc, ret>>

\* A goroutine that releases its slot only after a successful call.
CompleteLeaksOnError(w) ==
    /\ wpc[w] = "fetch"
    /\ \E resp \in network[cap[w].req.Name] :
          /\ FetchAndStore(w, resp)
          /\ sem' = IF resp.Transport /\ resp.Status = StatusOK /\ resp.Decodes
                    THEN sem - 1 ELSE sem
    /\ wg' = wg - 1
    /\ wpc' = [wpc EXCEPT ![w] = "exit"]
    /\ UNCHANGED <<requests, network, next, cap, cpc, ret>>

\* The goroutine from the return of Do to its end in one step: the fetch's
\* result is stored, the slot released and the WaitGroup counted down.
Complete(w) ==
    /\ wpc[w] = "fetch"
    /\ \E resp \in network[cap[w].req.Name] : FetchAndStore(w, resp)
    /\ sem' = sem - 1
    /\ wg' = wg - 1
    /\ wpc' = [wpc EXCEPT ![w] = "exit"]
    /\ UNCHANGED <<requests, network, next, cap, cpc, ret>>

\* the loop has ended; wg.Wait(); return results
Return ==
    /\ cpc = "running"
    /\ next > N
    /\ WaitDone(wg)
    /\ cpc' = "returned"
    /\ ret' = results
    /\ UNCHANGED <<requests, network, results, sem, wg, next, cap, wpc, calls,
                   writes>>

BatchInit ==
    /\ \E reqs \in RequestLists(MaxN) : BatchStart(reqs, AnyNetwork)
    /\ KeyIdle
    /\ CfgIdle
    /\ FnIdle

BatchNext ==
    \/ Spawn /\ UNCHANGED <<keyVars, cfgVars, fnVars>>
    \/ \E w \in Workers : Acquire(w) /\ UNCHANGED <<keyVars, cfgVars, fnVars>>
    \/ \E w \in Workers : Fetch(w) /\ UNCHANGED <<keyVars, cfgVars, fnVars>>
    \/ \E w \in Workers : Release(w) /\ UNCHANGED <<keyVars, cfgVars, fnVars>>
    \/ \E w \in Workers : Done(w) /\ UNCHANGED <<keyVars, cfgVars, fnVars>>
    \/ Return /\ UNCHANGED <<keyVars, cfgVars, fnVars>>

\* The batch, every step of a goroutine on its own.
Spec == BatchInit /\ [][BatchNext]_vars

\* MaxConcurrent + Over requests against the test server
WideRequests ==
    [k \in 1..(MaxConcurrent + Over) |->
        [Name |-> IF k % 2 = 1 THEN "gem1" ELSE "nonexistent",
         Version |-> "1.0.0"]]

WideInit == BatchStart(WideRequests, TestServer) /\ KeyIdle /\ CfgIdle /\ FnIdle

WideNext ==
    \/ Spawn /\ UNCHANGED <<keyVars, cfgVars, fnVars>>
    \/ \E w \in Workers : Acquire(w) /\ UNCHANGED <<keyVars, cfgVars, fnVars>>
    \/ \E w \in Workers : Complete(w) /\ UNCHANGED <<keyVars, cfgVars, fnVars>>
    \/ Return /\ UNCHANGED <<keyVars, cfgVars, fnVars>>

\* The batch with more requests than the semaphore has slots; a goroutine
\* takes two steps, the acquisition of its slot and the rest.
SpecWide == WideInit /\ [][WideNext]_vars

\* no request at all, and more requests than the semaphore has slots
FairRequests == {<<>>, WideRequests}

FairInit ==
    /\ \E reqs \in FairRequests : BatchStart(reqs, TestServer)
    /\ KeyIdle
    /\ CfgIdle
    /\ FnIdle

\* The batch under a scheduler that lets some goroutine run whenever one can:
\* the caller's loop, a send on the semaphore with room, a call in flight
\* (every fetch ends) or the return after wg.Wait().
SpecWideFair == FairInit /\ [][WideNext]_vars /\ WF_vars(WideNext)

KeySpecInit == KeyInit /\ BatchIdle /\ CfgIdle /\ FnIdle

KeySpecNext == CallHostToEnvKey /\ UNCHANGED <<batchVars, cfgVars, fnVars>>

\* hostToEnvKey applied to each host of Hosts
SpecKey == KeySpecInit /\ [][KeySpecNext]_vars

(***************************************************************************)
(* The specifications of the resolver                                      *)
(***************************************************************************)
\* the worlds in which one goroutine resolves hosts
ResolveFileSystems ==
    {FileSystem(l, u, h) : l \in {Absent, DocLocal, DocJunk, DocOnlyC},
                           u \in {Absent, DocGlobal},
                           h \in {Absent, DocGlobal, DocLong}}

ResolveEnvironments ==
    {Environment(b, h, c) : b \in {Absent, DirU}, h \in {Absent, DirH},
                            c \in {Absent, <<>>, EnvToken}}

ResolveInit ==
    /\ \E files \in ResolveFileSystems, environment \in ResolveEnvironments :
          CfgStart({"g1"}, files, environment)
    /\ BatchIdle
    /\ KeyIdle
    /\ FnIdle

ResolveNext ==
    \/ \E q \in Procs, h \in CfgHosts :
          Call(q, "CredentialsFor", h) /\ UNCHANGED <<batchVars, keyVars, fnVars>>
    \/ \E q \in Procs : OnceCheck(q) /\ UNCHANGED <<batchVars, keyVars, fnVars>>
    \/ \E q \in Procs : OnceLock(q) /\ UNCHANGED <<batchVars, keyVars, fnVars>>
    \/ \E q \in Procs : LoadLocal(q) /\ UNCHANGED <<batchVars, keyVars, fnVars>>
    \/ \E q \in Procs : LoadGlobal(q) /\ UNCHANGED <<batchVars, keyVars, fnVars>>
    \/ \E q \in Procs : OnceFinish(q) /\ UNCHANGED <<batchVars, keyVars, fnVars>>
    \/ \E q \in Procs : Read(q) /\ UNCHANGED <<batchVars, keyVars, fnVars>>

\* One goroutine calls CredentialsFor again and again, in every world.
SpecResolve == ResolveInit /\ [][ResolveNext]_vars

\* the worlds in which two goroutines use and reset the cache
\* the worlds in which one goroutine merges the two configs
MergeFileSystems ==
    {FileSystem(l, u, h) : l \in {Absent, DocLocal, DocJunk, DocOnlyC},
                           u \in {Absent, DocGlobal},
                           h \in {Absent, DocGlobal, DocOnlyC, DocLong}}

MergeEnvironments ==
    {Environment(b, h, Absent) : b \in {Absent, DirU}, h \in {Absent, DirH}}

MergeInit ==
    /\ \E files \in MergeFileSystems, environment \in MergeEnvironments :
          CfgStart({"g1"}, files, environment)
    /\ BatchIdle
    /\ KeyIdle
    /\ FnIdle

MergeNext ==
    \/ \E q \in Procs :
          Call(q, "LoadBundleConfig", <<>>) /\ UNCHANGED <<batchVars, keyVars, fnVars>>
    \/ \E q \in Procs : OnceCheck(q) /\ UNCHANGED <<batchVars, keyVars, fnVars>>
    \/ \E q \in Procs : OnceLock(q) /\ UNCHANGED <<batchVars, keyVars, fnVars>>
    \/ \E q \in Procs : LoadLocal(q) /\ UNCHANGED <<batchVars, keyVars, fnVars>>
    \/ \E q \in Procs : LoadGlobal(q) /\ UNCHANGED <<batchVars, keyVars, fnVars>>
    \/ \E q \in Procs : OnceFinish(q) /\ UNCHANGED <<batchVars, keyVars, fnVars>>
    \/ \E q \in Procs : Read(q) /\ UNCHANGED <<batchVars, keyVars, fnVars>>

\* One goroutine calls LoadBundleConfig again and again, in every world.
SpecMerge == MergeInit /\ [][MergeNext]_vars

CacheFileSystems ==
    {FileSystem(DocLocal, Absent, DocGlobal), FileSystem(DocLocal, Absent, Absent),
     FileSystem(Absent, Absent, Absent)}

CacheEnvironments == {Environment(Absent, DirH, Absent)}

CacheOps == {<<"GetLocalBundleConfig", <<>>>>, <<"GetGlobalBundleConfig", <<>>>>,
             <<"LoadBundleConfig", <<>>>>, <<"CredentialsFor", HostAB>>}

CacheInit ==
    /\ \E files \in CacheFileSystems, environment \in CacheEnvironments :
          CfgStart({"g1", "g2"}, files, environment)
    /\ BatchIdle
    /\ KeyIdle
    /\ FnIdle

CacheNext ==
    \/ \E q \in Procs, c \in CacheOps :
          Call(q, c[1], c[2]) /\ UNCHANGED <<batchVars, keyVars, fnVars>>
    \/ \E q \in Procs : OnceCheck(q) /\ UNCHANGED <<batchVars, keyVars, fnVars>>
    \/ \E q \in Procs : OnceLock(q) /\ UNCHANGED <<batchVars, keyVars, fnVars>>
    \/ \E q \in Procs : LoadLocal(q) /\ UNCHANGED <<batchVars, keyVars, fnVars>>
    \/ \E q \in Procs : LoadGlobal(q) /\ UNCHANGED <<batchVars, keyVars, fnVars>>
    \/ \E q \in Procs : OnceFinish(q) /\ UNCHANGED <<batchVars, keyVars, fnVars>>
    \/ \E q \in Procs : Read(q) /\ UNCHANGED <<batchVars, keyVars, fnVars>>
    \/ \E q \in Procs : CallReset(q) /\ UNCHANGED <<batchVars, keyVars, fnVars>>
    \/ \E q \in Procs : Reset1(q) /\ UNCHANGED <<batchVars, keyVars, fnVars>>
    \/ \E q \in Procs : Reset2(q) /\ UNCHANGED <<batchVars, keyVars, fnVars>>
    \/ \E q \in Procs : Reset3(q) /\ UNCHANGED <<batchVars, keyVars, fnVars>>
    \/ \E files \in CacheFileSystems :
          FileChange(files) /\ UNCHANGED <<batchVars, keyVars, fnVars>>

\* Two goroutines use the cache and reset it while the files change.
SpecCache == CacheInit /\ [][CacheNext]_vars

(***************************************************************************)
(* credentials.go, client.go: IsToken, GetToken, applyAuth                 *)
(***************************************************************************)
\* An IsToken that only looks at the explicit token.
IsTokenExplicitOnly(c) ==
    IF c = Nil THEN FALSE
    ELSE c[1].Token # <<>>

\* func (c *Credentials) IsToken() bool
IsToken(c) ==
    IF c = Nil THEN FALSE
    ELSE c[1].Token # <<>> \/ c[1].Username = tokenUsername

\* func (c *Credentials) GetToken() string
GetToken(c) ==
    IF c = Nil THEN <<>>
    ELSE IF c[1].Token # <<>> THEN c[1].Token
    ELSE IF c[1].Username = tokenUsername THEN c[1].Password
    ELSE <<>>

Authorization == "Authorization"

Bearer == <<"B", "e", "a", "r", "e", "r", " ">>

Basic == <<"B", "a", "s", "i", "c", " ">>

\* base64.StdEncoding.EncodeToString: one-to-one, written as the text it
\* encodes between markers
Base64(s) == <<"base64(">> \o s \o <<")">>

\* req.Header.Set(name, value)
HeaderSet(header, name, value) ==
    [x \in (DOMAIN header) \cup {name} |-> IF x = name THEN value ELSE header[x]]

\* net/http: req.SetBasicAuth(username, password)
SetBasicAuth(header, username, password) ==
    HeaderSet(header, Authorization, Basic \o Base64(username \o <<":">> \o password))

\* the header of a request fresh from http.NewRequestWithContext
NoHeader == [x \in {} |-> <<>>]

\* func (c *Client) applyAuth(req *http.Request): the header of req after it,
\* for a client with the given credentials
applyAuth(credentials, header) ==
    IF credentials = Nil THEN header
    ELSE IF IsToken(credentials)
    THEN HeaderSet(header, Authorization, Bearer \o GetToken(credentials))
    ELSE IF credentials[1].Username # <<>>
    THEN SetBasicAuth(header, credentials[1].Username, credentials[1].Password)
    ELSE header

(***************************************************************************)
(* The specifications of single calls of functions without package state   *)
(***************************************************************************)
\* function f is about to be called with argument a
FnStart(f, a) == fn = f /\ arg = a /\ got = <<>> /\ fpc = "call"

\* the characters credential values are made of in this model
ValueChars == {"a", "n", "y", "A", "u", ":"}

\* "user:pass:word:with:colons" of TestParseCredentialValue
UserPassWordWithColons ==
    <<"u", "s", "e", "r", ":", "p", "a", "s", "s", ":", "w", "o", "r", "d", ":",
      "w", "i", "t", "h", ":", "c", "o", "l", "o", "n", "s">>

CredentialValues == Strings(ValueChars, MaxValueLen) \cup {UserPassWordWithColons}

\* got := parseCredentialValue(arg)
CallParseCredentialValue ==
    /\ fpc = "call"
    /\ fn = "parseCredentialValue"
    /\ got' = parseCredentialValue(arg)
    /\ fpc' = "done"
    /\ UNCHANGED <<fn, arg>>

CredInit ==
    /\ \E v \in CredentialValues : FnStart("parseCredentialValue", v)
    /\ BatchIdle
    /\ KeyIdle
    /\ CfgIdle

CredNext == CallParseCredentialValue /\ UNCHANGED <<batchVars, keyVars, cfgVars>>

\* parseCredentialValue applied to each value of CredentialValues
SpecCred == CredInit /\ [][CredNext]_vars

\* what config documents are made of in this model: a key with its colon, the
\* bare prefix, a letter, a colon, a blank, the two quotes, the comment sign,
\* the document marker, the two line ends, and a run of characters longer than
\* the scanner's buffer
YamlPieces ==
    {KeyAB \o <<":">>, BundlePrefix, <<"x">>, <<":">>, <<" ">>, <<"\"">>, <<"'">>,
     <<"#">>, Dashes, NL, <<"\r", "\n">>, <<LongRun>>}

Documents == {Flatten(ps) : ps \in Strings(YamlPieces, MaxPieces)}

\* got := parseBundleConfigYAML(arg)
CallParseBundleConfigYAML ==
    /\ fpc = "call"
    /\ fn = "parseBundleConfigYAML"
    /\ got' = parseBundleConfigYAML(arg)
    /\ fpc' = "done"
    /\ UNCHANGED <<fn, arg>>

YamlInit ==
    /\ \E d \in Documents : FnStart("parseBundleConfigYAML", d)
    /\ BatchIdle
    /\ KeyIdle
    /\ CfgIdle

YamlNext == CallParseBundleConfigYAML /\ UNCHANGED <<batchVars, keyVars, cfgVars>>

\* parseBundleConfigYAML applied to each document of Documents
SpecYaml == YamlInit /\ [][YamlNext]_vars

\* the strings the fields of a credential are drawn from
FieldStrings == {<<>>, tokenUsername, <<"A", "n", "y">>, <<"u">>, <<"p", ":">>}

\* the credentials a client may carry: none, or any combination of fields
ClientCredentials ==
    {Nil} \cup {Ptr(Credentials(u, p, t)) : u, p, t \in FieldStrings}

\* c.applyAuth(req) on a fresh request for a client with credentials arg
CallApplyAuth ==
    /\ fpc = "call"
    /\ fn = "applyAuth"
    /\ got' = applyAuth(arg, NoHeader)
    /\ fpc' = "done"
    /\ UNCHANGED <<fn, arg>>

AuthInit ==
    /\ \E c \in ClientCredentials : FnStart("applyAuth", c)
    /\ BatchIdle
    /\ KeyIdle
    /\ CfgIdle

AuthNext == CallApplyAuth /\ UNCHANGED <<batchVars, keyVars, cfgVars>>

\* applyAuth applied to a fresh request for each client of ClientCredentials
SpecAuth == AuthInit /\ [][AuthNext]_vars

\* creds := parseCredentialValue(value), as CredentialsFromEnv and
\* parseConfigFile obtain the credentials handed to WithCredentials
ParseForClient ==
    /\ fpc = "call"
    /\ fn = "WithCredentials"
    /\ got' = parseCredentialValue(arg)
    /\ fpc' = "client"
    /\ UNCHANGED <<fn, arg>>

\* c.applyAuth(req) on a fresh request of the client built with those
\* credentials
ApplyAuthOfClient ==
    /\ fpc = "client"
    /\ fn = "WithCredentials"
    /\ got' = [credentials |-> got, header |-> applyAuth(got, NoHeader)]
    /\ fpc' = "done"
    /\ UNCHANGED <<fn, arg>>

ClientAuthInit ==
    /\ \E v \in CredentialValues : FnStart("WithCredentials", v)
    /\ BatchIdle
    /\ KeyIdle
    /\ CfgIdle

ClientAuthNext ==
    \/ ParseForClient /\ UNCHANGED <<batchVars, keyVars, cfgVars>>
    \/ ApplyAuthOfClient /\ UNCHANGED <<batchVars, keyVars, cfgVars>>

\* a request of a client whose credentials are parsed from each value of
\* CredentialValues
SpecClientAuth == ClientAuthInit /\ [][ClientAuthNext]_vars

\* the version number "1.0.k"
Number(k) == "1.0." \o ToString(k)

\* the version lists of n entries the registry returns: ascending as in
\* TestGetGemVersions_TooManyVersions, descending as in
\* TestGetGemVersions_Success, all equal, and alternating
VersionLists(n) ==
    {[i \in 1..n |-> [Number |-> Number(i - 1)]],
     [i \in 1..n |-> [Number |-> Number(n - i)]],
     [i \in 1..n |-> [Number |-> Number(0)]],
     [i \in 1..n |-> [Number |-> Number(i % 2)]]}

VersionsResponses ==
    {VersionsResponse(FALSE, 0, FALSE, <<>>),
     VersionsResponse(TRUE, StatusNotFound, FALSE, <<>>),
     VersionsResponse(TRUE, StatusOK, FALSE, <<>>)}
    \cup {VersionsResponse(TRUE, StatusOK, TRUE, vs) :
            vs \in UNION {VersionLists(n) : n \in 0..MaxReturned}}

\* got := c.GetGemVersions(name) when Do gives the response of arg
CallGetGemVersions ==
    /\ fpc = "call"
    /\ fn = "GetGemVersions"
    /\ got' = GetGemVersions(arg.Name, arg.Resp)
    /\ fpc' = "done"
    /\ UNCHANGED <<fn, arg>>

VersionsInit ==
    /\ \E r \in VersionsResponses :
          FnStart("GetGemVersions", [Name |-> "test-gem", Resp |-> r])
    /\ BatchIdle
    /\ KeyIdle
    /\ CfgIdle

VersionsNext == CallGetGemVersions /\ UNCHANGED <<batchVars, keyVars, cfgVars>>

\* GetGemVersions against each response of VersionsResponses
SpecVersions == VersionsInit /\ [][VersionsNext]_vars

(***************************************************************************)
(* Properties of GetMultipleGemInfo                                        *)
(***************************************************************************)
\* the response the registry gave to the one call goroutine w made
ReplyTo(w) == calls[w][1].Resp

\* a fetch fails unless the transport worked, the status is 200 and the body
\* decodes
FetchFailed(resp) == ~(resp.Transport /\ resp.Status = StatusOK /\ resp.Decodes)

\* the result the call for requests[i] is due, given the registry's reply
Outcome(i) ==
    LET out == GetGemInfo(requests[i].Name, requests[i].Version, ReplyTo(i))
    IN  [Request |-> requests[i], Info |-> out.Info, Error |-> out.Error]

InFlight == {w \in Workers : wpc[w] \in {"fetch", "release"}}

\* C1: the returned sequence has one result per request, and result i pairs
\* requests[i] with the outcome of the fetch made for requests[i], whatever
\* the order in which the goroutines completed (N = 0 included).  Before the
\* return, a slot is either untouched or already holds that outcome.
C1_IndexAddressed ==
    /\ \A i \in 1..N : writes[i] # <<>> =>
          /\ Len(calls[i]) = 1
          /\ calls[i][1].Name = requests[i].Name
          /\ calls[i][1].Version = requests[i].Version
          /\ results[i] = Outcome(i)
    /\ cpc = "returned" =>
          /\ Len(ret) = N
          /\ \A i \in 1..N : writes[i] # <<>> /\ ret[i] = Outcome(i)

\* a returned batch of MaxN requests, the first two different and with
\* different outcomes
C1_Witness ==
    /\ cpc = "returned"
    /\ N = MaxN
    /\ requests[1] # requests[2]
    /\ ret[1].Error = Nil
    /\ ret[2].Error # Nil
    /\ ret[3].Info # Nil

\* C2: at most MaxConcurrent (10) goroutines are between acquiring and
\* releasing a semaphore slot, however many requests there are.
C2_AtMostTenInFlight == Cardinality(InFlight) <= MaxConcurrent

\* all ten slots taken while a further request waits for one
C2_Witness ==
    /\ Cardinality(InFlight) = MaxConcurrent
    /\ \E w \in Workers : wpc[w] = "acquire"

\* C3: once the call has returned, every goroutine has finished: none waits
\* for a slot or is in flight, every result slot has been filled, and no
\* semaphore slot is held.
C3_ReturnAfterJoin ==
    cpc = "returned" =>
        /\ \A w \in Workers : wpc[w] = "exit"
        /\ \A i \in 1..N : Len(writes[i]) >= 1 /\ results[i] # ZeroResult
        /\ sem = 0
        /\ wg = 0
        /\ ret = results

C3_Witness == cpc = "returned" /\ N = MaxN /\ \A w \in Workers : wpc[w] = "exit"

\* the requests whose fetch failed
FailedRequests == {i \in 1..N : FetchFailed(ReplyTo(i))}

\* C4: in a returned batch of N requests of which K fetches failed, every
\* request was fetched, exactly the K failed ones have an entry with an error
\* and no record, and the other N-K have a record and no error, each at the
\* index of its own request.
C4_FailuresIsolated ==
    cpc = "returned" =>
        /\ \A i \in 1..N : Len(calls[i]) = 1
        /\ {i \in 1..N : ret[i].Error # Nil /\ ret[i].Info = Nil} = FailedRequests
        /\ {i \in 1..N : ret[i].Info # Nil /\ ret[i].Error = Nil}
              = (1..N) \ FailedRequests
        /\ Cardinality({i \in 1..N : ret[i].Error # Nil})
              = Cardinality(FailedRequests)
        /\ Cardinality({i \in 1..N : ret[i].Info # Nil})
              = N - Cardinality(FailedRequests)

\* a returned batch in which the second of three fetches failed and the
\* others, one of them completed later, succeeded
C4_Witness ==
    /\ cpc = "returned"
    /\ N = 3
    /\ FailedRequests = {2}
    /\ ret[1].Info # Nil
    /\ ret[3].Info # Nil
    /\ ret[2].Error # Nil

CarriesRequested(r, req, resp) ==
    /\ r.Info # Nil =>
          /\ r.Info[1].Name = req.Name
          /\ r.Info[1].Version = req.Version
          /\ r.Error = Nil
          /\ resp.Status = 200
    /\ (resp.Transport /\ resp.Status # 200) => (r.Error # Nil /\ r.Info = Nil)

\* C19: every record GetGemInfo returns, and so every batch result i with a
\* record, carries the name and the version of requests[i], whatever name and
\* version the registry's response held; a response with a status other than
\* 200 gives an error and no record.
C19_RecordCarriesRequest ==
    /\ \A i \in 1..N : writes[i] # <<>> =>
          CarriesRequested(results[i], requests[i], ReplyTo(i))
    /\ cpc = "returned" =>
          \A i \in 1..N : CarriesRequested(ret[i], requests[i], ReplyTo(i))

\* a returned batch: the registry answered the first request with the record
\* of latest-name 9.9.9 and the result carries the requested gem1 1.0.0; it
\* answered the second with 404 and the result is an error
C19_Witness ==
    /\ cpc = "returned"
    /\ N = 2
    /\ ReplyTo(1).Name = "latest-name"
    /\ ReplyTo(1).Version = "9.9.9"
    /\ requests[1] = [Name |-> "gem1", Version |-> "1.0.0"]
    /\ ret[1].Info # Nil
    /\ ret[1].Info[1].Name = "gem1"
    /\ ret[1].Info[1].Version = "1.0.0"
    /\ ReplyTo(2).Status = 404
    /\ ret[2].Info = Nil
    /\ ret[2].Error # Nil

\* C20: the result storage has N slots from the start to the return, and slot
\* i is assigned at most once, by the goroutine of requests[i] and by no
\* other, in every interleaving; once that goroutine is past its call, and so
\* when the batch has returned, slot i has been assigned exactly once.
C20_SlotWrittenOnceByOwner ==
    /\ Len(results) = N
    /\ DOMAIN writes = 1..N
    /\ \A i \in 1..N :
          /\ Len(writes[i]) <= 1
          /\ \A k \in 1..Len(writes[i]) :
                /\ writes[i][k] = i
                /\ cap[writes[i][k]].req = requests[i]
          /\ wpc[i] \in {"release", "done", "exit"} => writes[i] = <<i>>
    /\ cpc = "returned" =>
          /\ Len(ret) = N
          /\ \A i \in 1..N : writes[i] = <<i>>

\* of three goroutines the third has assigned its slot, the second is about to
\* and the first still waits for the semaphore
C20_Witness ==
    /\ N = 3
    /\ writes[3] = <<3>>
    /\ writes[2] = <<>>
    /\ wpc[2] = "fetch"
    /\ writes[1] = <<>>
    /\ wpc[1] = "acquire"
    /\ results[1] = ZeroResult

\* the goroutines that hold a semaphore slot
Holding == {w \in Workers : wpc[w] = "fetch"}

\* C21: GetMultipleGemInfo cannot deadlock on its semaphore.  When every fetch
\* ends and some goroutine runs whenever one can, the slots taken are always
\* those of the goroutines in flight, at most ten, so that each slot acquired
\* is released once, also after a failed fetch; and eventually the call has
\* returned with every goroutine through its one call, which it makes holding
\* a slot, so that every goroutine that waited for a slot got one; for no
\* request at all as for more than ten.
C21_NoSemaphoreDeadlock ==
    /\ [](sem = Cardinality(Holding) /\ sem <= 10)
    /\ <>(/\ cpc = "returned"
          /\ sem = 0
          /\ \A w \in Workers : wpc[w] = "exit" /\ Len(calls[w]) = 1)

\* the batch of more than ten requests has returned, every slot free again,
\* the failed second request with its error
C21_Witness ==
    /\ cpc = "returned"
    /\ N > 10
    /\ sem = 0
    /\ \A w \in Workers : wpc[w] = "exit"
    /\ ret[2].Error # Nil
    /\ ret[N].Info # Nil

(***************************************************************************)
(* Properties of the resolver and of the config cache                      *)
(***************************************************************************)
\* the config a file holds now: absent when the file cannot be read or has no
\* qualifying entry
ConfigIn(path) ==
    IF path = <<>> \/ path \notin DOMAIN fs THEN Nil ELSE parseConfigFile(fs[path])

\* what each source defines for host h in the present world
LocalCred(h) == CredentialsForHost(ConfigIn(LocalPath), h)

EnvCred(h) ==
    IF hostToEnvKey(h) \in DOMAIN env /\ env[hostToEnvKey(h)] # <<>>
    THEN parseCredentialValue(env[hostToEnvKey(h)])
    ELSE Nil

GlobalCred(h) == CredentialsForHost(ConfigIn(globalBundleConfigPath), h)

\* goroutine q is back from a call of op
Back(q, op) == proc[q].pc = "idle" /\ proc[q].op = op

\* C5: CredentialsFor resolves local config > environment variable > global
\* config, first match wins: the local config's credential whenever the local
\* config defines one (also when the other two do), else the environment's
\* whenever the variable defines one (also when the global config does), else
\* the global config's.
C5_PriorityOrder ==
    \A q \in Procs : Back(q, "CredentialsFor") =>
        LET h == proc[q].host
        IN  /\ LocalCred(h) # Nil => proc[q].res = LocalCred(h)
            /\ (LocalCred(h) = Nil /\ EnvCred(h) # Nil) => proc[q].res = EnvCred(h)
            /\ (LocalCred(h) = Nil /\ EnvCred(h) = Nil /\ GlobalCred(h) # Nil)
                  => proc[q].res = GlobalCred(h)

\* all three sources define a credential for a.b and the local one, the token
\* l, was returned
C5_Witness ==
    \E q \in Procs :
        /\ Back(q, "CredentialsFor")
        /\ proc[q].host = HostAB
        /\ LocalCred(HostAB) # Nil
        /\ EnvCred(HostAB) # Nil
        /\ GlobalCred(HostAB) # Nil
        /\ EnvCred(HostAB) # LocalCred(HostAB)
        /\ GlobalCred(HostAB) # LocalCred(HostAB)
        /\ proc[q].res = Ptr(Credentials(tokenUsername, <<"l">>, <<"l">>))

\* the local file yields nothing for h: it cannot be read, or it has no
\* qualifying entry, or it has none at the key of h
LocalYieldsNothing(h) ==
    \/ LocalPath \notin DOMAIN fs
    \/ parseConfigFile(fs[LocalPath]) = Nil
    \/ hostToEnvKey(h) \notin DOMAIN parseConfigFile(fs[LocalPath])[1].credentials

\* the variable of h is unset or empty
EnvYieldsNothing(h) ==
    hostToEnvKey(h) \notin DOMAIN env \/ env[hostToEnvKey(h)] = <<>>

\* C6: a source that yields nothing for the host neither blocks the sources
\* below it nor raises an error: with nothing from the local file the result
\* is the environment's credential or else the global config's, with nothing
\* from the environment either it is the global config's, and the result is
\* nil exactly when no source defines a credential.  A file without a
\* qualifying entry leaves its cached config nil.
C6_EmptySourceSkipped ==
    /\ ~crashed
    /\ \A q \in Procs : proc[q].pc # "fatal"
    /\ \A q \in Procs : Back(q, "CredentialsFor") =>
        LET h == proc[q].host
        IN  /\ LocalYieldsNothing(h) =>
                  proc[q].res = IF EnvCred(h) # Nil THEN EnvCred(h) ELSE GlobalCred(h)
            /\ (LocalYieldsNothing(h) /\ EnvYieldsNothing(h)) =>
                  proc[q].res = GlobalCred(h)
            /\ proc[q].res = Nil <=>
                  (LocalCred(h) = Nil /\ EnvCred(h) = Nil /\ GlobalCred(h) = Nil)
            /\ (LocalPath \in DOMAIN fs /\ parseConfigFile(fs[LocalPath]) = Nil)
                  => localConfig = Nil

\* the local file is readable but has no qualifying entry, the variable is set
\* but empty, and the global config's credential u:p was returned
C6_Witness ==
    \E q \in Procs :
        /\ Back(q, "CredentialsFor")
        /\ proc[q].host = HostAB
        /\ LocalPath \in DOMAIN fs
        /\ fs[LocalPath] = DocJunk
        /\ KeyAB \in DOMAIN env
        /\ env[KeyAB] = <<>>
        /\ proc[q].res = Ptr(Credentials(<<"u">>, <<"p">>, <<>>))

\* the config a ReadFile result r leads to in a cache that was nil
FromRead(r) == IF r.Ok THEN parseConfigFile(r.Data) ELSE Nil

\* C7: as long as there was no reset, each config file is read and parsed at
\* most once, whatever calls are made, and every call of the same accessor (for
\* CredentialsFor: with the same host) returns the same result.
C7_LoadedOnceSameAnswers ==
    resets = 0 =>
        /\ loads <= 1
        /\ reads.local <= 1
        /\ reads.global <= 1
        /\ \A h \in CfgHosts : Cardinality(answers[h]) <= 1
        /\ \A q, r \in Procs :
              (/\ proc[q].pc = "idle"
               /\ proc[r].pc = "idle"
               /\ proc[q].op \in Accessors
               /\ proc[q].op = proc[r].op
               /\ proc[q].host = proc[r].host) => proc[q].res = proc[r].res

\* a.b was resolved twice, both times to the local file's credential, although
\* the local file has gone since it was read
C7_Witness ==
    /\ resets = 0
    /\ \A q \in Procs : Back(q, "CredentialsFor") /\ proc[q].host = HostAB
                          /\ proc[q].res = Ptr(Credentials(tokenUsername, <<"l">>, <<"l">>))
    /\ Cardinality(Procs) = 2
    /\ LocalPath \notin DOMAIN fs
    /\ reads.local = 1

\* what a call of op for host h returns from the configs lc and gc
AnswerFrom(op, h, lc, gc) ==
    CASE op = "GetLocalBundleConfig" -> lc
      [] op = "GetGlobalBundleConfig" -> gc
      [] op = "LoadBundleConfig" -> Merged(lc, gc)
      [] op = "CredentialsFor" ->
            IF CredentialsForHost(lc, h) # Nil THEN CredentialsForHost(lc, h)
            ELSE IF EnvCred(h) # Nil THEN EnvCred(h)
            ELSE CredentialsForHost(gc, h)

\* C8: when the first accesses to the cache are concurrent (no reset so far),
\* loadConfigs runs at most once and one goroutine at a time, nobody is past
\* Do - reading localConfig or globalConfig - before that one load is complete,
\* and every caller's result is the one the loaded values give.
C8_ConcurrentFirstAccess ==
    resets = 0 =>
        /\ loads <= 1
        /\ Cardinality({q \in Procs :
               proc[q].pc \in {"loadLocal", "loadGlobal", "finish"}}) <= 1
        /\ \A q \in Procs : proc[q].pc = "read" =>
              /\ loads = 1
              /\ seen.Complete
              /\ once.done
              /\ ~LoadInProgress
              /\ localConfig = FromRead(seen.Local)
              /\ globalConfig = FromRead(seen.Global)
        /\ \A q \in Procs : (proc[q].pc = "idle" /\ proc[q].op \in Accessors) =>
              /\ loads = 1
              /\ proc[q].res = AnswerFrom(proc[q].op, proc[q].host,
                                          FromRead(seen.Local), FromRead(seen.Global))

\* one goroutine is inside loadConfigs while the other, which also found the
\* Once not done, waits for the mutex
C8_Witness ==
    /\ resets = 0
    /\ \E q, r \in Procs :
          /\ proc[q].pc = "loadGlobal"
          /\ proc[q].op = "GetGlobalBundleConfig"
          /\ proc[r].pc = "lock"
          /\ proc[r].op = "CredentialsFor"

\* C9: after a reset that no loadConfigs run overlapped, a call made after the
\* reset returns only when the files have been read again, once, and the cached
\* configs are then exactly what those reads give: nil for a file that is
\* missing now, whatever was cached before the reset.
C9_ResetReloads ==
    \A q \in Procs :
        (/\ proc[q].pc = "idle"
         /\ proc[q].op \in Accessors
         /\ proc[q].ep = epoch
         /\ resets = epoch
         /\ epoch >= 1
         /\ ~racy) =>
            /\ loads = 1
            /\ seen.Epoch = epoch
            /\ seen.Complete
            /\ reads.local = 1
            /\ globalBundleConfigPath # <<>> => reads.global = 1
            /\ localConfig = FromRead(seen.Local)
            /\ globalConfig = FromRead(seen.Global)
            /\ proc[q].res = AnswerFrom(proc[q].op, proc[q].host,
                                        FromRead(seen.Local), FromRead(seen.Global))

\* one goroutine got the local config before the reset; after the reset, the
\* file now missing, the other gets nil
C9_Witness ==
    /\ resets = 1
    /\ epoch = 1
    /\ ~racy
    /\ \E q, r \in Procs :
          /\ Back(q, "GetLocalBundleConfig")
          /\ proc[q].ep = 0
          /\ proc[q].res # Nil
          /\ Back(r, "GetLocalBundleConfig")
          /\ proc[r].ep = 1
          /\ proc[r].res = Nil
    /\ ~seen.Local.Ok
    /\ localConfig = Nil

\* the keys of a config, none for an absent one
KeysOf(c) == IF c = Nil THEN {} ELSE DOMAIN c[1].credentials

\* C18: LoadBundleConfig returns nil exactly when the local and the global
\* config are both absent; otherwise a store whose keys are those of either
\* config, with the local config's credential for each key the local config
\* has and the global config's for the others.
C18_MergedLocalOverGlobal ==
    \A q \in Procs : Back(q, "LoadBundleConfig") =>
        LET lc == ConfigIn(LocalPath)
            gc == ConfigIn(globalBundleConfigPath)
            res == proc[q].res
        IN  /\ res = Nil <=> (lc = Nil /\ gc = Nil)
            /\ res # Nil =>
                  /\ DOMAIN res[1].credentials = KeysOf(lc) \cup KeysOf(gc)
                  /\ \A k \in KeysOf(lc) :
                        res[1].credentials[k] = lc[1].credentials[k]
                  /\ \A k \in KeysOf(gc) \ KeysOf(lc) :
                        res[1].credentials[k] = gc[1].credentials[k]

\* the local config has a token for a.b, the global one u:p for a.b and a token
\* for c: the merged store has the local token for a.b and the global one for c
C18_Witness ==
    \E q \in Procs :
        /\ Back(q, "LoadBundleConfig")
        /\ ConfigIn(LocalPath) # Nil
        /\ ConfigIn(globalBundleConfigPath) # Nil
        /\ DOMAIN proc[q].res[1].credentials = {KeyAB, KeyC}
        /\ proc[q].res[1].credentials[KeyAB] =
              Credentials(tokenUsername, <<"l">>, <<"l">>)
        /\ ConfigIn(globalBundleConfigPath)[1].credentials[KeyAB] =
              Credentials(<<"u">>, <<"p">>, <<>>)
        /\ proc[q].res[1].credentials[KeyC] = Credentials(<<>>, <<>>, <<"t">>)

\* the load q made: both ReadFile results on record are q's own and the
\* latest of their kind
LoadedBy(q) ==
    /\ seen.Complete
    /\ seen.LocalBy = q
    /\ seen.GlobalBy = q

\* C22: ResetConfigCache is safe against a load in progress, whatever the
\* interleaving: once the reset has returned and a call begun after it has
\* run loadConfigs to completion and returned, the cached configs hold only
\* what that load parsed, so a file that load found missing leaves nil and
\* never a config the load running during the reset wrote.
C22_ResetSafeDuringLoad ==
    \A q \in Procs :
        (/\ proc[q].pc = "idle"
         /\ proc[q].op \in Accessors
         /\ proc[q].ep = epoch
         /\ resets = epoch
         /\ epoch >= 1
         /\ LoadedBy(q)) =>
            /\ localConfig = FromRead(seen.Local)
            /\ globalConfig = FromRead(seen.Global)

(***************************************************************************)
(* Properties of hostToEnvKey                                              *)
(***************************************************************************)
\* what one character of a host without port becomes in the key
KeyCharOf(c) ==
    IF c = "." THEN <<"_", "_">>
    ELSE IF c = "-" THEN <<"_", "_", "_">>
    ELSE <<ToUpperChar(c)>>

\* BUNDLE_ followed, character by character, by the upper-cased host with two
\* underscores for a dot and three for a dash
ExpectedKey(h) == BundlePrefix \o Flatten([k \in 1..Len(h) |-> KeyCharOf(h[k])])

NoColonNoBracket(h) == \A k \in 1..Len(h) : h[k] \notin {":", "[", "]"}

BundleRubygemsOrg ==
    BundlePrefix \o <<"R", "U", "B", "Y", "G", "E", "M", "S", "_", "_", "O", "R", "G">>

BundleMyGemsExampleCom ==
    BundlePrefix \o <<"M", "Y", "_", "_", "_", "G", "E", "M", "S", "_", "_", "E",
                      "X", "A", "M", "P", "L", "E", "_", "_", "C", "O", "M">>

\* C10: for a host without colon and without bracket hostToEnvKey strips
\* nothing: the key is BUNDLE_ followed by the upper-cased host in which every
\* '.' became "__" and every '-' became "___"; rubygems.org and
\* my-gems.example.com give the keys the spec quotes.
C10_PlainHostKey ==
    (kpc = "done" /\ NoColonNoBracket(host)) =>
        /\ key = ExpectedKey(host)
        /\ Len(key) = Len(BundlePrefix) + Len(host) + Count(host, ".")
                        + 2 * Count(host, "-")
        /\ host = RubygemsOrg => key = BundleRubygemsOrg
        /\ host = MyGemsExampleCom => key = BundleMyGemsExampleCom

\* the key of my-gems.example.com has been computed
C10_Witness ==
    kpc = "done" /\ host = MyGemsExampleCom /\ key = BundleMyGemsExampleCom

BundleLocalhost == BundlePrefix \o <<"L", "O", "C", "A", "L", "H", "O", "S", "T">>

Unbracketed(h) == ~HasPrefix(h, <<"[">>)

Bracketed(h) == Slice(h, 2, Index(h, "]") - 1)

Parsed == fn = "parseCredentialValue" /\ fpc = "done"

\* C13: parseCredentialValue splits only at the first ':': the empty string
\* gives nil; a value without colon gives only a token, the whole value; a
\* value with a colon gives username and password that, joined by one colon,
\* are the value, the username without colon (so the password holds every
\* further colon); the token is the password when the username is exactly
\* "any" and empty otherwise.
C13_SplitAtFirstColon ==
    Parsed =>
        /\ arg = <<>> <=> got = Nil
        /\ (arg # <<>> /\ Count(arg, ":") = 0) =>
              got = Ptr(Credentials(<<>>, <<>>, arg))
        /\ Count(arg, ":") > 0 =>
              /\ got # Nil
              /\ got[1].Username \o <<":">> \o got[1].Password = arg
              /\ Count(got[1].Username, ":") = 0
              /\ Count(got[1].Password, ":") = Count(arg, ":") - 1
              /\ got[1].Token =
                    IF got[1].Username = <<"a", "n", "y">> THEN got[1].Password
                    ELSE <<>>
        /\ arg = UserPassWordWithColons =>
              /\ got[1].Username = <<"u", "s", "e", "r">>
              /\ got[1].Password = Slice(UserPassWordWithColons, 6, 26)
              /\ got[1].Token = <<>>

\* "any::" gave the token ":" with the username "any" kept
C13_Witness ==
    /\ Parsed
    /\ arg = <<"a", "n", "y", ":", ":">>
    /\ got = Ptr(Credentials(<<"a", "n", "y">>, <<":">>, <<":">>))

(***************************************************************************)
(* Properties of parseBundleConfigYAML                                     *)
(***************************************************************************)
RECURSIVE SplitAt(_, _)
\* the pieces of s between the occurrences of character c
SplitAt(s, c) ==
    IF Index(s, c) = 0 THEN <<s>>
    ELSE <<SubSeq(s, 1, Index(s, c) - 1)>>
           \o SplitAt(SubSeq(s, Index(s, c) + 1, Len(s)), c)

\* the trimmed lines of a document
TrimmedLines(doc) ==
    [k \in 1..Len(SplitAt(doc, "\n")) |-> TrimSpace(SplitAt(doc, "\n")[k])]

\* the trimmed parts of a trimmed line before and after its first colon
KeyPart(t) == TrimSpace(SubSeq(t, 1, Index(t, ":") - 1))

ValuePart(t) == TrimSpace(SubSeq(t, Index(t, ":") + 1, Len(t)))

\* a value without one layer of matching surrounding quotes
Unquoted(v) ==
    IF Len(v) >= 2 /\ v[1] = v[Len(v)] /\ v[1] \in {"\"", "'"}
    THEN SubSeq(v, 2, Len(v) - 1)
    ELSE v

\* a trimmed line that yields an entry
Qualifies(t) ==
    /\ t # <<>>
    /\ t[1] # "#"
    /\ t # <<"-", "-", "-">>
    /\ Count(t, ":") > 0
    /\ HasPrefix(KeyPart(t), BundlePrefix)

\* the map holds exactly the entries of the qualifying lines of doc, the last
\* line of a key giving its value
HoldsEntriesOf(mp, doc) ==
    LET ls == TrimmedLines(doc)
        qs == {k \in 1..Len(ls) : Qualifies(ls[k])}
    IN  /\ DOMAIN mp = {KeyPart(ls[k]) : k \in qs}
        /\ \A k \in qs :
              (\A j \in qs : KeyPart(ls[j]) = KeyPart(ls[k]) => j <= k)
                 => mp[KeyPart(ls[k])] = Unquoted(ValuePart(ls[k]))

YamlParsed == fn = "parseBundleConfigYAML" /\ fpc = "done"

\* C14 as stated: parseBundleConfigYAML maps every document to exactly the
\* entries of its qualifying lines.
C14_AsStated == YamlParsed => HoldsEntriesOf(got, arg)

\* C14, amended: unless the scan fails on a line longer than the scanner's
\* buffer, and then the result is the empty map, parseBundleConfigYAML maps a
\* document to exactly the entries of its qualifying lines: each line trimmed;
\* blank lines, lines starting with '#', a lone "---" and lines without ':'
\* skipped; every other line split at its first ':' into trimmed key and
\* trimmed value, the value without one layer of matching surrounding quotes,
\* kept only if the key starts with "BUNDLE_".
C14_EntriesOfQualifyingLines ==
    YamlParsed =>
        IF Count(arg, LongRun) > 0
        THEN got = EmptyMap
        ELSE HoldsEntriesOf(got, arg)

\* the document BUNDLE_A__B:"x" gave the one entry BUNDLE_A__B -> x
C14_Witness ==
    /\ YamlParsed
    /\ arg = KeyAB \o <<":", "\"", "x", "\"">>
    /\ got = MapPut(EmptyMap, KeyAB, <<"x">>)

(***************************************************************************)
(* Properties of applyAuth                                                 *)
(***************************************************************************)
AuthApplied == fn = "applyAuth" /\ fpc = "done"

\* the request carries the Bearer header with token tok and nothing else
HasBearer(header, tok) ==
    DOMAIN header = {Authorization} /\ header[Authorization] = Bearer \o tok

\* the request carries the basic-auth header of u and p and nothing else
HasBasic(header, u, p) ==
    /\ DOMAIN header = {Authorization}
    /\ header[Authorization] = Basic \o Base64(u \o <<":">> \o p)

VersionsListed ==
    /\ fn = "GetGemVersions"
    /\ fpc = "done"
    /\ arg.Resp.Transport
    /\ arg.Resp.Status = 200
    /\ arg.Resp.Decodes

\* C17: GetGemVersions returns the first min(n, 20) version numbers of the n
\* the registry returned, in their order: 25 versions give exactly 20 entries
\* and up to 20 versions are returned whole.
C17_FirstTwentyInOrder ==
    VersionsListed =>
        LET sent == arg.Resp.Versions
            n == Len(sent)
        IN  /\ got.Error = Nil
            /\ Len(got.Versions) = (IF n < 20 THEN n ELSE 20)
            /\ \A i \in 1..Len(got.Versions) : got.Versions[i] = sent[i].Number
            /\ n = 25 => Len(got.Versions) = 20
            /\ n <= 20 => got.Versions = [i \in 1..n |-> sent[i].Number]

\* of the 25 versions 1.0.0 to 1.0.24 the first 20 came back, 1.0.19 last
C17_Witness ==
    /\ VersionsListed
    /\ Len(arg.Resp.Versions) = 25
    /\ arg.Resp.Versions[25].Number = "1.0.24"
    /\ Len(got.Versions) = 20
    /\ got.Versions[1] = "1.0.0"
    /\ got.Versions[20] = "1.0.19"

(***************************************************************************)
(* Properties of parseCredentialValue followed by applyAuth                *)
(***************************************************************************)
ClientAuthApplied == fn = "WithCredentials" /\ fpc = "done"

\* the Authorization header carries a Bearer token that is not empty
SendsBearerToken(header) ==
    /\ Authorization \in DOMAIN header
    /\ HasPrefix(header[Authorization], Bearer)
    /\ Len(header[Authorization]) > Len(Bearer)

\* the Authorization header carries basic auth
SendsBasicAuth(header) ==
    /\ Authorization \in DOMAIN header
    /\ HasPrefix(header[Authorization], Basic)

\* C23: every credential parseCredentialValue returns for a non-empty value
\* makes applyAuth attach authentication to the request: a Bearer header with
\* a non-empty token, or basic auth.
C23_ParsedValueAuthenticates ==
    (ClientAuthApplied /\ arg # <<>>) =>
        \/ SendsBearerToken(got.header)
        \/ SendsBasicAuth(got.header)

\* the values that leave the request without authentication: those that begin
\* with the colon
C23_SendsNothing ==
    /\ ClientAuthApplied
    /\ arg = <<":", "u">>
    /\ got.credentials = Ptr(Credentials(<<>>, <<"u">>, <<>>))
    /\ got.header = NoHeader

\* "any:" makes the request carry a Bearer header without a token
C23_EmptyBearer ==
    /\ ClientAuthApplied
    /\ arg = <<"a", "n", "y", ":">>
    /\ got.credentials = Ptr(Credentials(tokenUsername, <<>>, <<>>))
    /\ got.header[Authorization] = Bearer

====
